---- MODULE Spec2Model ----
(***************************************************************************)
(* A model of file-cleaner.py: the rule predicate (Rules.matches), the     *)
(* rule construction (make_rules), the scan (find_targets), the gate and   *)
(* the deletion loop of main, and the empty-directory sweep                *)
(* (remove_empty_dirs); and of get_target_period of monthly-analysis.py.  *)
(*                                                                         *)
(* A string is a sequence of one-character strings; a path is the sequence *)
(* of its parts (pathlib's Path.parts), the anchor "/" first.  The         *)
(* filesystem is a function from the paths that exist to their kind.       *)
(***************************************************************************)
EXTENDS Integers, Sequences, FiniteSets, TLC

VARIABLES
    fs,        \* the filesystem: existing path |-> "file" | "dir"
    root,      \* Path(args.path).resolve()
    args,      \* the parsed command line
    pc,        \* the position of main
    rules,     \* the Rules object built by make_rules
    targets,   \* the list returned by find_targets
    idx,       \* the deletion loop's position in targets (1-based)
    attempts,  \* history: one record per removal attempt of the deletion loop
    removed,   \* main's counter `removed`
    dirs,      \* remove_empty_dirs' sorted list `dirs`
    sidx,      \* the sweep loop's position in dirs (1-based)
    emptied,   \* remove_empty_dirs' counter `emptied`
    pruned,    \* history: the directories the sweep removed, in order
    proceed,   \* main's `proceed`
    retval,    \* the value main returns (-1 before it returns)
    status,    \* the process exit status (-1 while the process runs)
    scanned,   \* history: find_targets was invoked in this run
    fs0,       \* history: the filesystem when this run started
    run,       \* which run this is (n), and how the first run went
    env,       \* history: how many environment events happened, by kind,
               \* and the entries whose inspection raised an access error
    probe      \* the input and the answer of one call of a pure function
               \* (Rules.matches, get_target_period)

vars == << fs, root, args, pc, rules, targets, idx, attempts, removed, dirs,
           sidx, emptied, pruned, proceed, retval, status, scanned, fs0, run,
           env, probe >>

(***************************************************************************)
(* Bounds of the model.                                                    *)
(***************************************************************************)
\* the largest number of entries under root in an initial tree
MaxEntries == 4
\* the largest value of --max-depth tried (None is tried too)
MaxDepthArg == 1
\* the largest number of environment events (access error, external
\* deletion, failing removal, failing directory operation) in one behaviour
MaxFaults == 1

(***************************************************************************)
(* Strings.                                                                *)
(***************************************************************************)
\* str.lower() on one character, for the letters the model's names use
LowerChar(c) ==
    CASE c = "L" -> "l" [] c = "O" -> "o" [] c = "G" -> "g"
      [] c = "T" -> "t" [] c = "M" -> "m" [] c = "P" -> "p"
      [] c = "X" -> "x" [] c = "D" -> "d" [] c = "S" -> "s"
      [] OTHER -> c

to_lower(s) == [i \in 1..Len(s) |-> LowerChar(s[i])]

\* str.rfind(ch) as a 1-based position, 0 when ch does not occur
rfind(s, ch) ==
    IF \E i \in 1..Len(s) : s[i] = ch
    THEN CHOOSE i \in 1..Len(s) :
             /\ s[i] = ch
             /\ \A j \in (i+1)..Len(s) : s[j] # ch
    ELSE 0

\* PurePath.suffix: the text from the last dot on, unless that dot is the
\* first or the last character of the name
suffix(name) ==
    LET i == rfind(name, ".")
    IN  IF 1 < i /\ i < Len(name) THEN SubSeq(name, i, Len(name)) ELSE << >>

\* the suffix without its dot, as it is spelled
ext_of_nolower(name) ==
    LET e == suffix(name)
    IN  IF e # << >> /\ e[1] = "." THEN Tail(e) ELSE e

\* lines 51-54 of Rules.matches: the suffix without its dot, lower-cased
ext_of(name) ==
    LET e == suffix(name)
    IN  to_lower(IF e # << >> /\ e[1] = "." THEN Tail(e) ELSE e)

(***************************************************************************)
(* Regular expressions: the part of Python's re dialect the model's        *)
(* patterns use.  A pattern is literal characters and "." (any character), *)
(* with "^" allowed in front and "$" at the end.  A "(" that is never      *)
(* closed and a leading "*" do not compile.                                *)
(***************************************************************************)
re_error(p) ==
    \/ /\ \E i \in 1..Len(p) : p[i] = "("
       /\ ~ \E i \in 1..Len(p) : p[i] = ")"
    \/ Len(p) >= 1 /\ p[1] = "*"

re_compile(p) ==
    LET s == Len(p) >= 1 /\ p[1] = "^"
        e == Len(p) >= 1 /\ p[Len(p)] = "$"
    IN  [ start |-> s,
          end   |-> e,
          atoms |-> SubSeq(p, IF s THEN 2 ELSE 1,
                              IF e THEN Len(p) - 1 ELSE Len(p)) ]

\* Pattern.search(name): the pattern matches at some offset of the name
pattern_search(c, name) ==
    \E i \in 1..(Len(name) + 1) :
        /\ c.start => i = 1
        /\ i + Len(c.atoms) - 1 <= Len(name)
        /\ c.end => i + Len(c.atoms) - 1 = Len(name)
        /\ \A k \in 1..Len(c.atoms) :
               c.atoms[k] = "." \/ c.atoms[k] = name[i + k - 1]

(***************************************************************************)
(* Paths and the filesystem.                                               *)
(***************************************************************************)
IsPrefix(p, q) == Len(p) <= Len(q) /\ SubSeq(q, 1, Len(p)) = p
IsProperPrefix(p, q) == Len(p) < Len(q) /\ SubSeq(q, 1, Len(p)) = p

exists(f, p) == p \in DOMAIN f
is_file(f, p) == p \in DOMAIN f /\ f[p] = "file"
is_dir(f, p) == p \in DOMAIN f /\ f[p] = "dir"

Parent(p) == SubSeq(p, 1, Len(p) - 1)
Children(f, p) == {q \in DOMAIN f : Len(q) = Len(p) + 1 /\ IsPrefix(p, q)}
Subtree(f, p) == {q \in DOMAIN f : IsPrefix(p, q)}
Below(f, p) == {q \in DOMAIN f : IsProperPrefix(p, q)}

\* the filesystem without the paths of gone
Without(f, gone) == [q \in (DOMAIN f) \ gone |-> f[q]]

RECURSIVE SumLen(_)
SumLen(p) == IF p = << >> THEN 0 ELSE Len(Head(p)) + SumLen(Tail(p))

\* len(str(p)) of an absolute path: the anchor, the names, and a separator
\* between two names
StrLen(p) ==
    IF Len(p) <= 1 THEN SumLen(p) ELSE SumLen(p) + (Len(p) - 2)

\* get_depth: len(target.relative_to(base).parts), 0 when target is not
\* under base (ValueError)
get_depth(base, target) ==
    IF IsPrefix(base, target)
    THEN Len(SubSeq(target, Len(base) + 1, Len(target)))
    ELSE 0

(***************************************************************************)
(* Rules.                                                                  *)
(***************************************************************************)
SeqRange(s) == {s[i] : i \in 1..Len(s)}

\* Rules.matches without the is_file test of line 50
matches_any_kind(f, r, path) ==
    LET name == path[Len(path)]
    IN  IF name \in r.name_exact THEN TRUE
        ELSE IF ext_of(name) # << >> /\ ext_of(name) \in r.ext_lower THEN TRUE
        ELSE \E k \in 1..Len(r.regexes) : pattern_search(r.regexes[k], name)

matches(f, r, path) ==
    LET name == path[Len(path)]
    IN  IF name \in r.name_exact THEN TRUE
        ELSE IF /\ is_file(f, path)
                /\ ext_of(name) # << >>
                /\ ext_of(name) \in r.ext_lower THEN TRUE
        ELSE \E k \in 1..Len(r.regexes) : pattern_search(r.regexes[k], name)

\* make_rules reaches exit(2): some pattern does not compile.  The lenient
\* variant drops the check.
make_rules_lenient(patterns) == FALSE

make_rules_exits(patterns) == \E k \in 1..Len(patterns) : re_error(patterns[k])

make_rules(names, exts, patterns) ==
    [ name_exact |-> SeqRange(names),
      ext_lower  |-> {to_lower(e) : e \in SeqRange(exts)},
      regexes    |-> [k \in 1..Len(patterns) |-> re_compile(patterns[k])] ]

NoRules == [name_exact |-> {}, ext_lower |-> {}, regexes |-> << >>]

(***************************************************************************)
(* The walk: Path.rglob('*').  The directories under root are visited in   *)
(* pre-order, and the children of each visited directory are listed as     *)
(* os.scandir returns them.  scandir's order is the filesystem's: ord, a   *)
(* ranking of the names, stands for it.                                    *)
(***************************************************************************)
RECURSIVE Flatten(_)
Flatten(ss) == IF ss = << >> THEN << >> ELSE Head(ss) \o Flatten(Tail(ss))

scandir(f, d, ord) ==
    LET present == SelectSeq(ord, LAMBDA n : Append(d, n) \in DOMAIN f)
    IN  [i \in 1..Len(present) |-> Append(d, present[i])]

RECURSIVE iterate_directories(_, _, _)
iterate_directories(f, d, ord) ==
    LET subdirs == SelectSeq(scandir(f, d, ord), LAMBDA c : f[c] = "dir")
    IN  << d >> \o Flatten([i \in 1..Len(subdirs) |->
                               iterate_directories(f, subdirs[i], ord)])

\* a walk that yields its starting directory too
rglob_with_root(f, r, ord) ==
    LET ds == iterate_directories(f, r, ord)
    IN  << r >> \o Flatten([i \in 1..Len(ds) |-> scandir(f, ds[i], ord)])

\* a walk that yields the entries beneath a directory before the directory
rglob_deepest_first(f, r, ord) ==
    LET ds == iterate_directories(f, r, ord)
        w  == Flatten([i \in 1..Len(ds) |-> scandir(f, ds[i], ord)])
    IN  [i \in 1..Len(w) |-> w[Len(w) + 1 - i]]

\* Path.rglob('*'): the entries beneath r, never r itself
rglob(f, r, ord) ==
    LET ds == iterate_directories(f, r, ord)
    IN  Flatten([i \in 1..Len(ds) |-> scandir(f, ds[i], ord)])

(***************************************************************************)
(* find_targets.  items is the walk; f is the filesystem as the entries    *)
(* are inspected; denied are the entries whose inspection raises OSError   *)
(* (warning, skipped).  max_depth is << >> for None and << n >> for n.     *)
(***************************************************************************)
\* the depth check of lines 108-111 with >= in place of >
too_deep_off_by_one(r, max_depth, item) ==
    max_depth # << >> /\ get_depth(r, item) >= max_depth[1]

too_deep(r, max_depth, item) ==
    max_depth # << >> /\ get_depth(r, item) > max_depth[1]

\* find_targets without the item.exists() test of lines 114-115
find_targets_no_exists(f, r, rl, max_depth, items, denied) ==
    SelectSeq(items, LAMBDA item :
        /\ ~ too_deep(r, max_depth, item)
        /\ item \notin denied
        /\ matches(f, rl, item))

find_targets(f, r, rl, max_depth, items, denied) ==
    SelectSeq(items, LAMBDA item :
        /\ ~ too_deep(r, max_depth, item)
        /\ item \notin denied
        /\ exists(f, item)
        /\ matches(f, rl, item))

(***************************************************************************)
(* The gate of main, lines 233-237: ans is what confirm() returns when it  *)
(* is asked.                                                               *)
(***************************************************************************)
\* a gate that asks whenever --no-prompt is absent, --yes or not
gate_always_asks(yes, no_prompt, ans) == IF ~ no_prompt THEN ans ELSE yes

gate(yes, no_prompt, ans) == IF yes /\ ~ no_prompt THEN ans ELSE yes

(***************************************************************************)
(* The deletion loop of main, lines 241-255.                               *)
(***************************************************************************)
\* the exceptions `except (OSError, PermissionError)` catches
caught_permission_only(exc) == exc = "PermissionError"

caught(exc) == exc \in {"OSError", "FileNotFoundError", "PermissionError"}

\* the entry the loop takes after the one at i, whose attempt ended in out
next_entry_retry(i, out) == IF out = "ok" THEN i + 1 ELSE i

next_entry(i, out) == i + 1

\* shutil.rmtree that empties the directory and leaves it in place
rmtree_keeps_dir(f, t) == Without(f, Below(f, t))

\* a removal that takes the directory and its direct entries only
rmtree_shallow(f, t) == Without(f, {t} \cup Children(f, t))

\* shutil.rmtree(t) succeeding
rmtree(f, t) == Without(f, Subtree(f, t))

\* Path.unlink() succeeding
unlink(f, t) == Without(f, {t})

\* a counter that counts every attempt, failed or not
count_removed_always(n, out) == n + 1

\* lines 247 and 252: `removed += 1`, reached only when the removal of the
\* entry raised nothing
count_removed(n, out) == IF out = "ok" THEN n + 1 ELSE n

\* lines 257-264: what the final line of the report states, by name
summary_line(a, n_removed, n_emptied) ==
    IF a.remove_empty_dirs
    THEN [removed |-> n_removed, emptied |-> n_emptied]
    ELSE [removed |-> n_removed]

\* what a failing rmtree(t) may have removed before it failed: a set of
\* entries below t that holds, with an entry, everything below that entry
PartialRemovals(f, t) ==
    {S \in SUBSET Below(f, t) : \A p \in S : Below(f, p) \subseteq S}

(***************************************************************************)
(* remove_empty_dirs.                                                      *)
(***************************************************************************)
\* is_dir_empty: not any(path.iterdir()), False when iterdir raises
is_dir_empty(f, p, iterdir_fails) ==
    IF iterdir_fails \/ ~ is_dir(f, p) THEN FALSE ELSE Children(f, p) = {}

\* list.sort(key=len(str(p))): stable, ascending
RECURSIVE sort_asc(_)
sort_asc(s) ==
    IF s = << >> THEN << >>
    ELSE LET rest == sort_asc(SubSeq(s, 1, Len(s) - 1))
             x    == s[Len(s)]
             k    == Cardinality({i \in 1..Len(rest) :
                                     StrLen(rest[i]) <= StrLen(x)})
         IN  SubSeq(rest, 1, k) \o << x >> \o SubSeq(rest, k + 1, Len(rest))

\* list.sort(key=len(str(p)), reverse=True): stable, longest first
RECURSIVE sort_desc(_)
sort_desc(s) ==
    IF s = << >> THEN << >>
    ELSE LET rest == sort_desc(SubSeq(s, 1, Len(s) - 1))
             x    == s[Len(s)]
             k    == Cardinality({i \in 1..Len(rest) :
                                     StrLen(rest[i]) >= StrLen(x)})
         IN  SubSeq(rest, 1, k) \o << x >> \o SubSeq(rest, k + 1, Len(rest))

\* lines 144: dirs.sort(key=lambda p: len(str(p)), reverse=True)
sort_dirs(s) == sort_desc(s)

\* lines 136-141: the directories of the walk, without those whose is_dir
\* raises
collect_dirs(f, items, skipped) ==
    SelectSeq(items, LAMBDA item : is_dir(f, item) /\ item \notin skipped)

\* a sweep step that removes d and what is in it, without the emptiness test
sweep_one_rmtree(f, r, d, ev) ==
    IF is_dir(f, d) /\ d # r /\ ev = "none"
    THEN [fs |-> Without(f, Subtree(f, d)), removed |-> TRUE]
    ELSE [fs |-> f, removed |-> FALSE]

\* a sweep step that removes an empty directory only directly under r
sweep_one_top_level(f, r, d, ev) ==
    IF is_dir_empty(f, d, ev = "iterdir") /\ Parent(d) = r /\ ev # "rmdir"
    THEN [fs |-> Without(f, {d}), removed |-> TRUE]
    ELSE [fs |-> f, removed |-> FALSE]

\* lines 147-153: one iteration of the sweep loop on d; ev is the
\* environment's part: "none", "iterdir" (listing d fails) or "rmdir"
\* (removing d fails)
sweep_one(f, r, d, ev) ==
    IF is_dir_empty(f, d, ev = "iterdir") /\ d # r /\ ev # "rmdir"
    THEN [fs |-> Without(f, {d}), removed |-> TRUE]
    ELSE [fs |-> f, removed |-> FALSE]

(***************************************************************************)
(* The names, trees and command lines the model draws from.                *)
(***************************************************************************)
N_notes   == << "n", "o", "t", "e", "s", ".", "t", "x", "t" >>
N_cache   == << "c", "a", "c", "h", "e", ".", "t", "m", "p" >>
N_pycache == << "_", "_", "p", "y", "c", "a", "c", "h", "e", "_", "_" >>
N_mpyc    == << "m", ".", "p", "y", "c" >>
N_xLOG    == << "x", ".", "L", "O", "G" >>
N_build   == << "b", "u", "i", "l", "d" >>
N_debug   == << "d", "e", "b", "u", "g", ".", "l", "o", "g" >>
N_e       == << "e" >>
N_ttmp    == << "t", ".", "t", "m", "p" >>
N_DS      == << ".", "D", "S", "_", "S", "t", "o", "r", "e" >>
N_dotlog  == << ".", "l", "o", "g" >>
N_log     == << "l", "o", "g" >>
N_adot    == << "a", "." >>
N_targz   == << "a", ".", "l", "o", "g", ".", "g", "z" >>

E_log == << "l", "o", "g" >>
E_tmp == << "t", "m", "p" >>
E_TMP == << "T", "M", "P" >>
E_TXT == << "T", "X", "T" >>
E_LOG == << "L", "O", "G" >>
E_dotlog == << ".", "l", "o", "g" >>

P_b      == << "^", "b" >>
P_tmpEnd == << "t", "m", "p", "$" >>
P_anyg   == << ".", "g", "$" >>
P_open   == << "(" >>

\* lines 201-204: the defaults of main
DefaultNames == << N_pycache, N_DS >>
DefaultExts  == << E_log, E_tmp >>

\* the resolved root, Path('/srv')
Root == << << "/" >>, << "s", "r", "v" >> >>

\* the entries an initial tree is drawn from, as paths relative to root
Template ==
    ( << N_notes >>            :> "file" ) @@
    ( << N_cache >>            :> "file" ) @@
    ( << N_pycache >>          :> "dir"  ) @@
    ( << N_pycache, N_mpyc >>  :> "file" ) @@
    ( << N_pycache, N_xLOG >>  :> "file" ) @@
    ( << N_build >>            :> "dir"  ) @@
    ( << N_build, N_debug >>   :> "file" ) @@
    ( << N_build, N_e >>       :> "dir"  ) @@
    ( << N_build, N_e, N_ttmp >> :> "file" )

\* two orders in which scandir may list names
ScanOrders ==
    { << N_notes, N_cache, N_pycache, N_build, N_mpyc, N_xLOG, N_debug, N_e,
         N_ttmp, N_DS, N_dotlog, N_log, N_adot, N_targz >>,
      << N_targz, N_adot, N_log, N_dotlog, N_DS, N_ttmp, N_e, N_debug, N_xLOG,
         N_mpyc, N_build, N_pycache, N_cache, N_notes >> }

\* the tree with root r a directory and the entries S of the template
TreeOf(r, S) ==
    [q \in {r} \cup {r \o rel : rel \in S} |->
        IF q = r THEN "dir" ELSE Template[SubSeq(q, Len(r) + 1, Len(q))]]

ParentClosed(S) ==
    \A rel \in S : Len(rel) > 1 =>
        /\ SubSeq(rel, 1, Len(rel) - 1) \in S
        /\ Template[SubSeq(rel, 1, Len(rel) - 1)] = "dir"

Trees(r) ==
    {TreeOf(r, S) : S \in {T \in SUBSET DOMAIN Template :
                              ParentClosed(T) /\ Cardinality(T) <= MaxEntries}}

\* a root that does not exist, and a root that is a regular file
NoRoot(r) == [q \in {} |-> "dir"]
FileRoot(r) == (r :> "file")

\* the rule options of the command lines: --name, --ext, --pattern
RuleArgs ==
    { [names |-> << >>,       exts |-> << >>,           patterns |-> << >>],
      [names |-> << N_DS >>,  exts |-> << >>,           patterns |-> << >>],
      [names |-> << >>,       exts |-> << E_TXT, E_tmp >>, patterns |-> << P_b >>],
      [names |-> << >>,       exts |-> << >>,           patterns |-> << P_open >>] }

DepthArgs == {<< >>} \cup {<< n >> : n \in 0..MaxDepthArg}

CommandLines ==
    {[yes |-> y, no_prompt |-> np, remove_empty_dirs |-> re, max_depth |-> md,
      names |-> ra.names, exts |-> ra.exts, patterns |-> ra.patterns] :
        y \in BOOLEAN, np \in BOOLEAN, re \in BOOLEAN, md \in DepthArgs,
        ra \in RuleArgs}

NoEnv == [access |-> 0, external |-> 0, delfail |-> 0, sweepfail |-> 0,
          denied |-> {}]
EnvLeft == MaxFaults - (env.access + env.external + env.delfail + env.sweepfail)

NoProbe == [path |-> << >>, result |-> FALSE]
FirstRun == [n |-> 1, first_proceed |-> FALSE, first_matched |-> 0,
             first_removed |-> 0]

(***************************************************************************)
(* The run of main.                                                        *)
(***************************************************************************)
Init ==
    /\ root = Root
    /\ fs \in Trees(Root) \cup {NoRoot(Root), FileRoot(Root)}
    /\ args \in CommandLines
    /\ pc = "start"
    /\ rules = NoRules
    /\ targets = << >>
    /\ idx = 1
    /\ attempts = << >>
    /\ removed = 0
    /\ dirs = << >>
    /\ sidx = 1
    /\ emptied = 0
    /\ pruned = << >>
    /\ proceed = FALSE
    /\ retval = -1
    /\ status = -1
    /\ scanned = FALSE
    /\ fs0 = fs
    /\ run = FirstRun
    /\ env = NoEnv
    /\ probe = NoProbe

\* main, lines 198-215: the defaults, then the checks of root
CheckRoot ==
    /\ pc = "start"
    /\ args' = [args EXCEPT
                  !.names = IF args.names = << >> THEN DefaultNames ELSE @,
                  !.exts  = IF args.exts = << >> THEN DefaultExts ELSE @]
    /\ IF ~ exists(fs, root) \/ ~ is_dir(fs, root)
       THEN retval' = 1 /\ pc' = "returned"
       ELSE retval' = retval /\ pc' = "rules"
    /\ UNCHANGED << fs, root, rules, targets, idx, attempts, removed, dirs,
                    sidx, emptied, pruned, proceed, status, scanned, fs0, run,
                    env, probe >>

\* main, line 218: make_rules, which ends the process with exit(2) on a
\* pattern that does not compile
MakeRules ==
    /\ pc = "rules"
    /\ IF make_rules_exits(args.patterns)
       THEN status' = 2 /\ pc' = "exited" /\ rules' = rules
       ELSE /\ rules' = make_rules(args.names, args.exts, args.patterns)
            /\ status' = status
            /\ pc' = "scan"
    /\ UNCHANGED << fs, root, args, targets, idx, attempts, removed, dirs,
                    sidx, emptied, pruned, proceed, retval, scanned, fs0, run,
                    env, probe >>

\* the environment's part of a scan: entries deleted by someone else after
\* the walk listed them and before they are inspected, and entries whose
\* inspection raises an access error
ScanEvents(items) ==
    {ev \in [vanished : SUBSET SeqRange(items), denied : SUBSET SeqRange(items)] :
        /\ Cardinality(ev.vanished) + Cardinality(ev.denied) <= EnvLeft
        /\ ev.vanished \cap ev.denied = {}
        /\ \A p \in ev.vanished : exists(fs, p)}

\* main, lines 221-225: find_targets, and the return when nothing matched
FindTargets ==
    /\ pc = "scan"
    /\ \E ord \in ScanOrders :
       LET items == rglob(fs, root, ord) IN
       \E ev \in ScanEvents(items) :
       LET gone  == UNION {Subtree(fs, p) : p \in ev.vanished}
           f     == Without(fs, gone)
           found == find_targets(f, root, rules, args.max_depth, items,
                                 ev.denied)
       IN  /\ fs' = f
           /\ targets' = found
           /\ env' = [env EXCEPT
                        !.external = @ + Cardinality(ev.vanished),
                        !.access = @ + Cardinality(ev.denied),
                        !.denied = @ \cup ev.denied]
           /\ IF found = << >>
              THEN retval' = 0 /\ pc' = "returned"
              ELSE retval' = retval /\ pc' = "gate"
    /\ scanned' = TRUE
    /\ UNCHANGED << root, args, rules, idx, attempts, removed, dirs, sidx,
                    emptied, pruned, proceed, status, fs0, run, probe >>

\* main, lines 228-239: the preview, the confirmation, the decision
Gate ==
    /\ pc = "gate"
    /\ \E ans \in BOOLEAN :
       LET go == gate(args.yes, args.no_prompt, ans)
       IN  /\ proceed' = go
           /\ IF go
              THEN pc' = "delete" /\ retval' = retval
              ELSE pc' = "returned" /\ retval' = 0
    /\ idx' = 1
    /\ removed' = 0
    /\ UNCHANGED << fs, root, args, rules, targets, attempts, dirs, sidx,
                    emptied, pruned, status, scanned, fs0, run, env, probe >>

\* what the removal of t can do: the resulting filesystem, the outcome
\* ("ok" or the exception raised) and whether the environment made it fail
Removals(f, t) ==
    IF is_dir(f, t)
    THEN {[fs |-> rmtree(f, t), out |-> "ok", fault |-> 0]}
         \cup (IF EnvLeft > 0
               THEN {[fs |-> Without(f, S), out |-> "PermissionError",
                      fault |-> 1] : S \in PartialRemovals(f, t)}
               ELSE {})
    ELSE IF exists(f, t)
    THEN {[fs |-> unlink(f, t), out |-> "ok", fault |-> 0]}
         \cup (IF EnvLeft > 0
               THEN {[fs |-> f, out |-> "PermissionError", fault |-> 1]}
               ELSE {})
    ELSE {[fs |-> f, out |-> "FileNotFoundError", fault |-> 0]}

\* main, lines 241-255: one iteration of the deletion loop
DeleteStep ==
    /\ pc = "delete"
    /\ idx <= Len(targets)
    /\ LET t == targets[idx] IN
       \E r \in Removals(fs, t) :
           /\ fs' = r.fs
           /\ attempts' = Append(attempts,
                  [path |-> t,
                   kind |-> IF exists(fs, t) THEN fs[t] ELSE "gone",
                   out |-> r.out])
           /\ removed' = count_removed(removed, r.out)
           /\ env' = [env EXCEPT !.delfail = @ + r.fault]
           /\ IF r.out = "ok" \/ caught(r.out)
              THEN pc' = pc /\ idx' = next_entry(idx, r.out)
              ELSE pc' = "crashed" /\ idx' = idx
    /\ UNCHANGED << root, args, rules, targets, dirs, sidx, emptied, pruned,
                    proceed, retval, status, scanned, fs0, run, probe >>

\* a sweep whether or not it was asked for
sweep_always(a) == TRUE

\* main, line 258: `if args.remove_empty_dirs`
sweep_requested(a) == a.remove_empty_dirs

\* main, lines 262-266: the end of a run without --remove-empty-dirs
FinishNoSweep ==
    /\ pc = "delete"
    /\ idx > Len(targets)
    /\ ~ sweep_requested(args)
    /\ retval' = 0
    /\ pc' = "returned"
    /\ UNCHANGED << fs, root, args, rules, targets, idx, attempts, removed,
                    dirs, sidx, emptied, pruned, proceed, status, scanned, fs0,
                    run, env, probe >>

\* the directories whose is_dir may raise while they are collected
CollectEvents(items) ==
    {sk \in SUBSET {p \in SeqRange(items) : is_dir(fs, p)} :
        Cardinality(sk) <= EnvLeft}

\* remove_empty_dirs, lines 132-144: collect the directories and sort them
StartSweep ==
    /\ pc = "delete"
    /\ idx > Len(targets)
    /\ sweep_requested(args)
    /\ \E ord \in ScanOrders :
       LET items == rglob(fs, root, ord) IN
       \E sk \in CollectEvents(items) :
           /\ dirs' = sort_dirs(collect_dirs(fs, items, sk))
           /\ env' = [env EXCEPT !.sweepfail = @ + Cardinality(sk)]
    /\ sidx' = 1
    /\ emptied' = 0
    /\ pruned' = << >>
    /\ pc' = "sweep"
    /\ UNCHANGED << fs, root, args, rules, targets, idx, attempts, removed,
                    proceed, retval, status, scanned, fs0, run, probe >>

SweepEvents == {"none"} \cup (IF EnvLeft > 0 THEN {"iterdir", "rmdir"} ELSE {})

\* remove_empty_dirs, lines 146-153: one iteration of the sweep loop
SweepStep ==
    /\ pc = "sweep"
    /\ sidx <= Len(dirs)
    /\ \E ev \in SweepEvents :
       LET r == sweep_one(fs, root, dirs[sidx], ev) IN
           /\ fs' = r.fs
           /\ emptied' = IF r.removed THEN emptied + 1 ELSE emptied
           /\ pruned' = IF r.removed THEN Append(pruned, dirs[sidx]) ELSE pruned
           /\ env' = [env EXCEPT
                        !.sweepfail = IF ev = "none" THEN @ ELSE @ + 1]
    /\ sidx' = sidx + 1
    /\ UNCHANGED << root, args, rules, targets, idx, attempts, removed, dirs,
                    proceed, retval, status, scanned, fs0, run, pc, probe >>

\* remove_empty_dirs returns emptied; main, lines 259-266
SweepReturn ==
    /\ pc = "sweep"
    /\ sidx > Len(dirs)
    /\ retval' = 0
    /\ pc' = "returned"
    /\ UNCHANGED << fs, root, args, rules, targets, idx, attempts, removed,
                    dirs, sidx, emptied, pruned, proceed, status, scanned, fs0,
                    run, env, probe >>

\* lines 269-270: `main()` is called and its value dropped, so the process
\* ends with status 0 whenever main returns
process_status(rv) == 0

ProcessExit ==
    /\ pc = "returned"
    /\ status' = process_status(retval)
    /\ pc' = "exited"
    /\ UNCHANGED << fs, root, args, rules, targets, idx, attempts, removed,
                    dirs, sidx, emptied, pruned, proceed, retval, scanned, fs0,
                    run, env, probe >>

Next ==
    \/ CheckRoot
    \/ MakeRules
    \/ FindTargets
    \/ Gate
    \/ DeleteStep
    \/ FinishNoSweep
    \/ StartSweep
    \/ SweepStep
    \/ SweepReturn
    \/ ProcessExit

Spec == Init /\ [][Next]_vars

(***************************************************************************)
(* Two runs in succession: the same command line again, on the tree the    *)
(* first run left.                                                         *)
(***************************************************************************)
Rerun ==
    /\ pc = "exited"
    /\ run.n = 1
    /\ run' = [n |-> 2, first_proceed |-> proceed,
               first_matched |-> Len(targets), first_removed |-> removed]
    /\ pc' = "start"
    /\ rules' = NoRules
    /\ targets' = << >>
    /\ idx' = 1
    /\ attempts' = << >>
    /\ removed' = 0
    /\ dirs' = << >>
    /\ sidx' = 1
    /\ emptied' = 0
    /\ pruned' = << >>
    /\ proceed' = FALSE
    /\ retval' = -1
    /\ status' = -1
    /\ scanned' = FALSE
    /\ fs0' = fs
    /\ UNCHANGED << fs, root, args, env, probe >>

NextTwice == Next \/ Rerun

\* both runs are given --yes
InitTwice == Init /\ args.yes

SpecTwice == InitTwice /\ [][NextTwice]_vars

(***************************************************************************)
(* Rules.matches on its own: one entry, one rule set, one call.            *)
(***************************************************************************)
ProbeNames ==
    { N_notes, N_xLOG, N_pycache, N_DS, N_dotlog, N_log, N_adot, N_targz,
      N_build, N_debug }

ProbeRuleArgs ==
    [ names    : { << >>, << N_DS >>, << N_pycache, N_build >> },
      exts     : { << >>, << E_LOG >>, << E_log, E_tmp >>, << E_dotlog >>,
                   << << >> >>, << E_TXT, << "g", "z" >> >> },
      patterns : { << >>, << P_b >>, << P_tmpEnd, P_anyg >> } ]

InitMatch ==
    /\ root = Root
    /\ \E n \in ProbeNames, k \in {"file", "dir"} :
           fs = (Root :> "dir") @@ (Append(Root, n) :> k)
    /\ \E ra \in ProbeRuleArgs :
           args = [yes |-> FALSE, no_prompt |-> FALSE,
                   remove_empty_dirs |-> FALSE, max_depth |-> << >>,
                   names |-> ra.names, exts |-> ra.exts,
                   patterns |-> ra.patterns]
    /\ pc = "probe"
    /\ rules = NoRules
    /\ targets = << >>
    /\ idx = 1
    /\ attempts = << >>
    /\ removed = 0
    /\ dirs = << >>
    /\ sidx = 1
    /\ emptied = 0
    /\ pruned = << >>
    /\ proceed = FALSE
    /\ retval = -1
    /\ status = -1
    /\ scanned = FALSE
    /\ fs0 = fs
    /\ run = FirstRun
    /\ env = NoEnv
    /\ probe = NoProbe

\* make_rules, then rules.matches(path) on the one entry under root
ProbeMatches ==
    /\ pc = "probe"
    /\ rules' = make_rules(args.names, args.exts, args.patterns)
    /\ \E path \in (DOMAIN fs) \ {root} :
           probe' = [path |-> path, result |-> matches(fs, rules', path)]
    /\ pc' = "probed"
    /\ UNCHANGED << fs, root, args, targets, idx, attempts, removed, dirs,
                    sidx, emptied, pruned, proceed, retval, status, scanned,
                    fs0, run, env >>

NextMatch == ProbeMatches

SpecMatch == InitMatch /\ [][NextMatch]_vars

(***************************************************************************)
(* The run of main on the example tree: notes.txt, cache.tmp, __pycache__  *)
(* with files inside, build/debug.log; the rules are the defaults.         *)
(***************************************************************************)
ExampleTrees ==
    {TreeOf(Root, { << N_notes >>, << N_cache >>, << N_pycache >>,
                    << N_build >>, << N_build, N_debug >> } \cup inside) :
        inside \in (SUBSET { << N_pycache, N_mpyc >>, << N_pycache, N_xLOG >> })
                       \ {{}}}

InitExample ==
    /\ root = Root
    /\ fs \in ExampleTrees
    /\ args \in {c \in CommandLines :
                    c.names = << >> /\ c.exts = << >> /\ c.patterns = << >>}
    /\ pc = "start"
    /\ rules = NoRules
    /\ targets = << >>
    /\ idx = 1
    /\ attempts = << >>
    /\ removed = 0
    /\ dirs = << >>
    /\ sidx = 1
    /\ emptied = 0
    /\ pruned = << >>
    /\ proceed = FALSE
    /\ retval = -1
    /\ status = -1
    /\ scanned = FALSE
    /\ fs0 = fs
    /\ run = FirstRun
    /\ env = NoEnv
    /\ probe = NoProbe

SpecExample == InitExample /\ [][Next]_vars

(***************************************************************************)
(* Runs of main on a root whose own name satisfies the rules: a root named *)
(* __pycache__ (a default name) and a root named build (pattern ^b), with  *)
(* --yes --no-prompt, so that every run deletes what it finds.             *)
(***************************************************************************)
MatchingRoots == { << << "/" >>, N_pycache >>, << << "/" >>, N_build >> }

InitRoot ==
    /\ root \in MatchingRoots
    /\ fs \in Trees(root)
    /\ args \in {c \in CommandLines : c.yes /\ c.no_prompt}
    /\ pc = "start"
    /\ rules = NoRules
    /\ targets = << >>
    /\ idx = 1
    /\ attempts = << >>
    /\ removed = 0
    /\ dirs = << >>
    /\ sidx = 1
    /\ emptied = 0
    /\ pruned = << >>
    /\ proceed = FALSE
    /\ retval = -1
    /\ status = -1
    /\ scanned = FALSE
    /\ fs0 = fs
    /\ run = FirstRun
    /\ env = NoEnv
    /\ probe = NoProbe

SpecRoot == InitRoot /\ [][Next]_vars

(***************************************************************************)
(* monthly-analysis.py: get_target_period on its own.  None is << >> and   *)
(* an integer n is << n >>; a datetime is a record of year, month and day; *)
(* a call that raises returns no period.                                   *)
(***************************************************************************)
\* calendar.isleap
isleap(y) == y % 4 = 0 /\ (y % 100 # 0 \/ y % 400 = 0)

\* calendar.mdays, January first
mdays == << 31, 28, 31, 30, 31, 30, 31, 31, 30, 31, 30, 31 >>

\* calendar.monthrange(y, m)[1]; monthrange raises IllegalMonthError when m
\* is not in 1..12
monthrange_raises(m) == ~ (1 <= m /\ m <= 12)
monthrange_days(y, m) == mdays[m] + (IF m = 2 /\ isleap(y) THEN 1 ELSE 0)

\* calendar.month_name
month_name ==
    << "January", "February", "March", "April", "May", "June", "July",
       "August", "September", "October", "November", "December" >>

\* the target month as lines 29-40 choose it, with `today.year` kept for a
\* today in January
target_of_same_year(today, year, month) ==
    IF year # << >> /\ month # << >>
    THEN [year |-> year[1], month |-> month[1]]
    ELSE IF today.month = 1
         THEN [year |-> today.year, month |-> 12]
         ELSE [year |-> today.year, month |-> today.month - 1]

\* lines 29-40: the given year and month, or the month before today's
target_of(today, year, month) ==
    IF year # << >> /\ month # << >>
    THEN [year |-> year[1], month |-> month[1]]
    ELSE IF today.month = 1
         THEN [year |-> today.year - 1, month |-> 12]
         ELSE [year |-> today.year, month |-> today.month - 1]

\* get_target_period, lines 20-52
get_target_period(today, year, month) ==
    LET t == target_of(today, year, month) IN
    IF monthrange_raises(t.month)
    THEN [raised |-> TRUE]
    ELSE LET last_day == monthrange_days(t.year, t.month)
         IN  [raised       |-> FALSE,
              start_date   |-> [year |-> t.year, month |-> t.month, day |-> 1],
              end_date     |-> [year |-> t.year, month |-> t.month,
                                day |-> last_day],
              target_year  |-> t.year,
              target_month |-> t.month,
              month_name   |-> month_name[t.month]]

\* the years tried: a leap year, a common year, the leap century and a
\* common century
PeriodYears == {2000, 2023, 2024, 2100}

\* the values of --year and --month tried, None among them; 0 and 13 are
\* not months
YearArgs  == {<< >>} \cup {<< y >> : y \in PeriodYears}
MonthArgs == {<< >>} \cup {<< m >> : m \in 0..13}

\* the values datetime.now() may have
Todays == [year : PeriodYears, month : 1..12, day : {1, 28}]

InitPeriod ==
    /\ root = Root
    /\ fs = NoRoot(Root)
    /\ args \in [year : YearArgs, month : MonthArgs]
    /\ pc = "period"
    /\ rules = NoRules
    /\ targets = << >>
    /\ idx = 1
    /\ attempts = << >>
    /\ removed = 0
    /\ dirs = << >>
    /\ sidx = 1
    /\ emptied = 0
    /\ pruned = << >>
    /\ proceed = FALSE
    /\ retval = -1
    /\ status = -1
    /\ scanned = FALSE
    /\ fs0 = fs
    /\ run = FirstRun
    /\ env = NoEnv
    /\ probe = NoProbe

\* one call get_target_period(today, year, month)
CallGetTargetPeriod ==
    /\ pc = "period"
    /\ \E today \in Todays :
           probe' = [today  |-> today,
                     result |-> get_target_period(today, args.year, args.month)]
    /\ pc' = "period_done"
    /\ UNCHANGED << fs, root, args, rules, targets, idx, attempts, removed,
                    dirs, sidx, emptied, pruned, proceed, retval, status,
                    scanned, fs0, run, env >>

NextPeriod == CallGetTargetPeriod

SpecPeriod == InitPeriod /\ [][NextPeriod]_vars

(***************************************************************************)
(* The properties.                                                         *)
(***************************************************************************)
\* the extension of a name, as the rule set means it: the text after the
\* last dot, when that dot is not the first character of the name and text
\* follows it; lower-cased
ExtensionOf(name) ==
    LET dots == {i \in 2..(Len(name) - 1) : name[i] = "."}
    IN  IF dots = {} THEN << >>
        ELSE LET last == CHOOSE i \in dots : \A j \in dots : j <= i
             IN  to_lower(SubSeq(name, last + 1, Len(name)))

ByName(p) == p[Len(p)] \in rules.name_exact
ByExtension(f, p) ==
    /\ f[p] = "file"
    /\ ExtensionOf(p[Len(p)]) # << >>
    /\ ExtensionOf(p[Len(p)]) \in rules.ext_lower
ByPattern(p) ==
    \E k \in 1..Len(rules.regexes) : pattern_search(rules.regexes[k], p[Len(p)])

\* C1: Rules.matches(E) is true exactly when E's base name is an exact
\* name, or E is a file whose lower-cased extension is a non-empty member
\* of the extension set, or some compiled pattern is found in E's base
\* name; so a directory is never matched by its extension, and a rule set
\* whose three collections are empty matches nothing.
C1_MatchesIff ==
    pc = "probed" =>
        /\ probe.result = ( \/ ByName(probe.path)
                            \/ ByExtension(fs, probe.path)
                            \/ ByPattern(probe.path) )
        /\ ( /\ fs[probe.path] = "dir"
             /\ ~ ByName(probe.path)
             /\ ~ ByPattern(probe.path) ) => ~ probe.result
        /\ rules = NoRules => ~ probe.result

\* a file matched by its extension alone, and only because the extension
\* is lower-cased first
C1_Witness ==
    /\ pc = "probed"
    /\ probe.result
    /\ fs[probe.path] = "file"
    /\ probe.path[Len(probe.path)] = N_xLOG
    /\ ~ ByName(probe.path)
    /\ ~ ByPattern(probe.path)

\* the run may change the tree: --yes was given, and --no-prompt was given
\* or the confirmation said yes
Authorized == args.yes /\ (args.no_prompt \/ proceed)

\* C2: a run changes the filesystem only if --yes is set and either
\* --no-prompt is set or the confirmation answers yes.  In every other run
\* (whatever --no-prompt and --remove-empty-dirs are and however many
\* entries matched) nothing is removed, the tree is as it was when the run
\* started, and a run that got as far as the scan ends with status 0.
C2_NoMutationUnlessConfirmed ==
    /\ (attempts # << >> \/ pruned # << >> \/ pc \in {"delete", "sweep"})
           => Authorized
    /\ ~ Authorized =>
           /\ attempts = << >>
           /\ pruned = << >>
           /\ env.external = 0 => fs = fs0
           /\ (pc = "exited" /\ scanned) => (retval = 0 /\ status = 0)

\* a preview run with --no-prompt and --remove-empty-dirs that matched
\* several entries and ended
C2_Witness ==
    /\ pc = "exited"
    /\ ~ args.yes
    /\ args.no_prompt
    /\ args.remove_empty_dirs
    /\ Len(targets) >= 2
    /\ fs = fs0
    /\ status = 0

\* the entries under root
Under(f, r) == {p \in DOMAIN f : IsProperPrefix(r, p)}

\* the depth of an entry: the number of path components from root
DepthFromRoot(p) == Len(p) - Len(root)

\* C3: a scan that no access error and no outside deletion disturbs
\* returns exactly the entries under root that match the rules and whose
\* depth is at most max_depth (every matching entry when max_depth is
\* None), each once, whatever their ancestors and descendants are.
C3_DepthSelects ==
    (scanned /\ env.external = 0 /\ env.access = 0) =>
        LET wanted == {p \in Under(fs0, root) :
                          /\ matches(fs0, rules, p)
                          /\ args.max_depth # << >> =>
                                 DepthFromRoot(p) <= args.max_depth[1]}
        IN  /\ SeqRange(targets) = wanted
            /\ Len(targets) = Cardinality(wanted)

\* with --max-depth 1: a matching directory at depth 1 is selected, and a
\* matching file inside it, at depth 2, is not
C3_Witness ==
    /\ scanned
    /\ env.external = 0 /\ env.access = 0
    /\ args.max_depth = << 1 >>
    /\ \E i \in 1..Len(targets) :
           /\ fs0[targets[i]] = "dir"
           /\ \E p \in Below(fs0, targets[i]) :
                  /\ matches(fs0, rules, p)
                  /\ p \notin SeqRange(targets)

\* the deletion loop has ended
DeletionDone == proceed /\ pc \in {"sweep", "returned", "exited"}

\* C4: when the MatchSet holds a directory D and an entry C beneath it,
\* the deletion loop does not end abnormally: D's removal counts as one
\* removed target, the later attempt on C finds it gone and fails without
\* stopping the loop, and every entry of the MatchSet is attempted.
C4_NestedPairNonFatal ==
    /\ pc # "crashed"
    /\ \A i, j \in 1..Len(attempts) :
           ( /\ i < j
             /\ IsProperPrefix(attempts[i].path, attempts[j].path)
             /\ attempts[i].kind = "dir"
             /\ attempts[i].out = "ok" )
           => /\ attempts[j].kind = "gone"
              /\ attempts[j].out = "FileNotFoundError"
    /\ removed = Cardinality({i \in 1..Len(attempts) : attempts[i].out = "ok"})
    /\ DeletionDone => Len(attempts) = Len(targets)

\* a finished run that removed a matched directory, then failed on a
\* matched entry inside it, then removed a further entry
C4_Witness ==
    /\ pc = "exited"
    /\ \E i, j, k \in 1..Len(attempts) :
           /\ i < j /\ j < k
           /\ IsProperPrefix(attempts[i].path, attempts[j].path)
           /\ attempts[i].out = "ok"
           /\ attempts[j].out = "FileNotFoundError"
           /\ attempts[k].out = "ok"

\* C5: no step of remove_empty_dirs removes root, or a directory that
\* holds an entry when it is removed, or anything that is not a directory:
\* every file present when the sweep starts is present when it ends.
C5_SweepSafe ==
    [][ (pc = "sweep" \/ pc' = "sweep") =>
            /\ root \in DOMAIN fs'
            /\ DOMAIN fs' \subseteq DOMAIN fs
            /\ \A p \in (DOMAIN fs) \ (DOMAIN fs') :
                   /\ fs[p] = "dir"
                   /\ p # root
                   /\ Children(fs, p) = {}
            /\ \A p \in DOMAIN fs' : fs'[p] = fs[p] ]_vars

\* a sweep that removed directories, left root empty and left root in place
C5_Witness ==
    /\ pc = "returned"
    /\ pruned # << >>
    /\ is_dir(fs, root)
    /\ Children(fs, root) = {}

\* the sweep has run to its end
SweepDone == DeletionDone /\ args.remove_empty_dirs /\ pc \in {"returned", "exited"}

\* C6: the sweep's list has every directory after the directories beneath
\* it, so a directory is evaluated when everything beneath it has been; a
\* directory emptied by the removal of its subdirectories is removed in the
\* same sweep, after them; when no directory operation of the sweep fails,
\* no empty directory but root remains; and the count returned is the
\* number of directories removed.
C6_DeepestFirst ==
    /\ \A i, j \in 1..Len(dirs) :
           IsProperPrefix(dirs[i], dirs[j]) => j < i
    /\ \A i, j \in 1..Len(pruned) :
           IsProperPrefix(pruned[i], pruned[j]) => j < i
    /\ emptied = Len(pruned)
    /\ (SweepDone /\ env.sweepfail = 0) =>
           \A d \in Under(fs, root) : fs[d] = "dir" => Children(fs, d) # {}

\* a sweep that removed a directory and then its parent, from a list in
\* which a directory with fewer components precedes one with more
C6_Witness ==
    /\ SweepDone
    /\ env.sweepfail = 0
    /\ \E i, j \in 1..Len(pruned) : i < j /\ Parent(pruned[i]) = pruned[j]
    /\ \E a, b \in 1..Len(dirs) : a < b /\ Len(dirs[a]) < Len(dirs[b])

\* C7: after a first run that went on to delete, with nothing changing the
\* tree from outside, no access error and no removal failing except on a
\* path already gone, a second run with the same command line matches
\* nothing, so it removes nothing and records no failure.
C7_SecondRunFindsNothing ==
    ( /\ run.n = 2
      /\ run.first_proceed
      /\ scanned
      /\ env.external = 0 /\ env.access = 0 /\ env.delfail = 0 )
    => /\ targets = << >>
       /\ attempts = << >>
       /\ removed = 0
       /\ pc \in {"returned", "exited"}

\* the second run has scanned, after a first run that matched a nested
\* pair and removed at least two targets
C7_Witness ==
    /\ run.n = 2
    /\ run.first_proceed
    /\ scanned
    /\ env = NoEnv
    /\ run.first_removed >= 2
    /\ run.first_matched > run.first_removed

\* the command line is in error: root is missing or no directory, or a
\* pattern does not compile
BadPatterns == {P_open}
ConfigError ==
    \/ root \notin DOMAIN fs0
    \/ fs0[root] # "dir"
    \/ \E k \in 1..Len(args.patterns) : args.patterns[k] \in BadPatterns

\* C8: a run whose root is missing or not a directory, or one of whose
\* patterns does not compile, never invokes find_targets, removes no entry
\* and prunes no directory.
C8_ConfigErrorAbortsEarly ==
    ConfigError =>
        /\ ~ scanned
        /\ pc \in {"start", "rules", "returned", "exited"}
        /\ targets = << >>
        /\ attempts = << >>
        /\ pruned = << >>
        /\ fs = fs0

\* a run with --yes --no-prompt on a populated tree, ended by a pattern
\* that does not compile
C8_Witness ==
    /\ pc = "exited"
    /\ is_dir(fs0, root)
    /\ \E k \in 1..Len(args.patterns) : args.patterns[k] \in BadPatterns
    /\ args.yes /\ args.no_prompt
    /\ Cardinality(Under(fs, root)) >= 3
    /\ status = 2

\* C9: the process exit status is 0 on every successful run and non-zero
\* on a root that does not exist, a root that is not a directory, and a
\* pattern that does not compile.
C9_ExitStatus ==
    pc = "exited" => (status = 0 <=> ~ ConfigError)

\* C10: once the run goes on to delete, the entries of the MatchSet are
\* attempted one by one in MatchSet order, each exactly once; a failing
\* attempt is caught and the loop goes on to the next entry; the loop ends
\* with every entry attempted.
C10_OneAttemptEachInOrder ==
    /\ pc # "crashed"
    /\ Len(attempts) <= Len(targets)
    /\ \A i \in 1..Len(attempts) : attempts[i].path = targets[i]
    /\ pc = "delete" => idx = Len(attempts) + 1
    /\ DeletionDone => Len(attempts) = Len(targets)
    /\ \A i, j \in 1..Len(targets) : targets[i] = targets[j] => i = j

\* a finished run whose first removal was refused and whose later
\* removals went on and succeeded
C10_Witness ==
    /\ pc = "exited"
    /\ Len(attempts) >= 3
    /\ attempts[1].out = "PermissionError"
    /\ attempts[2].out = "ok"
    /\ attempts[3].out = "ok"

\* the attempts of the deletion loop that ended as out says
Succeeded == {i \in 1..Len(attempts) : attempts[i].out = "ok"}
Failed == {i \in 1..Len(attempts) : attempts[i].out # "ok"}

\* the run has printed its final line
Reported == DeletionDone /\ pc \in {"returned", "exited"}

QuietScan == scanned /\ env.external = 0 /\ env.access = 0

\* C12: with --max-depth 0 the scan covers the root directory only: the
\* matching entries directly inside root are selected, and no entry inside
\* a subdirectory of root is.
C12_DepthZeroIsRootOnly ==
    (QuietScan /\ args.max_depth = << 0 >>) =>
        SeqRange(targets) =
            {p \in Under(fs0, root) : Parent(p) = root /\ matches(fs0, rules, p)}

\* the sweep has started: remove_empty_dirs was called
SweepStarted == pc = "sweep" \/ dirs # << >> \/ pruned # << >>

\* C13: the sweep runs only with --remove-empty-dirs and only when the
\* deletion loop has attempted every entry of the MatchSet.  In a run that
\* does not delete (no --yes, confirmation declined, nothing matched) no
\* sweep happens even with --remove-empty-dirs: no directory is pruned, and
\* the directories that were empty stay.
C13_SweepOnlyAfterDeletion ==
    /\ SweepStarted =>
           /\ args.remove_empty_dirs
           /\ proceed
           /\ Len(attempts) = Len(targets)
           /\ targets # << >>
    /\ ~ proceed =>
           /\ ~ SweepStarted
           /\ emptied = 0
           /\ \A d \in Under(fs0, root) :
                  (fs0[d] = "dir" /\ Children(fs0, d) = {} /\ env.external = 0)
                      => is_dir(fs, d)
           /\ env.external = 0 => fs = fs0

\* a run with --yes --no-prompt --remove-empty-dirs that matched nothing
\* and ended, an empty directory still in place
C13_Witness ==
    /\ pc = "exited"
    /\ args.yes /\ args.no_prompt /\ args.remove_empty_dirs
    /\ scanned
    /\ targets = << >>
    /\ \E d \in Under(fs, root) : fs[d] = "dir" /\ Children(fs, d) = {}

\* the entries someone else deleted during the scan of a run that did not
\* go on to delete
Vanished == (DOMAIN fs0) \ (DOMAIN fs)

\* the depth test of the scan
InDepth(p) == args.max_depth # << >> => DepthFromRoot(p) <= args.max_depth[1]

\* C14: an entry deleted from outside between its enumeration and its
\* inspection is skipped and is not in the MatchSet; an entry whose
\* inspection raises an access error is skipped; in both cases the scan
\* goes on: every other matching entry is in the MatchSet and find_targets
\* returns to main.
C14_ScanToleratesVanishing ==
    scanned =>
        /\ pc \in {"gate", "delete", "sweep", "returned", "exited"}
        /\ SeqRange(targets) \cap env.denied = {}
        /\ ~ proceed =>
               /\ SeqRange(targets) \cap Vanished = {}
               /\ SeqRange(targets) =
                      {p \in Under(fs, root) :
                          /\ p \notin env.denied
                          /\ InDepth(p)
                          /\ matches(fs, rules, p)}

\* a scan during which a matching entry was deleted from outside, and
\* which still returned other matches
C14_Witness ==
    /\ pc = "gate"
    /\ env.external = 1
    /\ \E p \in Vanished : InDepth(p) /\ matches(fs0, rules, p)
    /\ targets # << >>

\* the example's entries
X_notes   == Root \o << N_notes >>
X_cache   == Root \o << N_cache >>
X_pycache == Root \o << N_pycache >>
X_build   == Root \o << N_build >>
X_debug   == Root \o << N_build, N_debug >>

\* an undisturbed scan of the example tree with no --max-depth
ExampleScanned == QuietScan /\ args.max_depth = << >>

\* an undisturbed run on the example tree that deleted and swept
ExampleSwept ==
    ExampleScanned /\ SweepDone /\ env.delfail = 0 /\ env.sweepfail = 0

\* C15 as stated: the scan of the example tree yields cache.tmp,
\* __pycache__ together with everything inside __pycache__, and
\* build/debug.log.
C15_ContentsListed ==
    ExampleScanned =>
        SeqRange(targets) =
            {X_cache, X_pycache, X_debug} \cup Below(fs0, X_pycache)

\* C15, amended: the scan of the example tree yields cache.tmp,
\* __pycache__ and build/debug.log, and of the files inside __pycache__
\* those that match a rule themselves (x.LOG does, m.pyc does not);
\* notes.txt and build are not selected.  After deletion and the sweep all
\* that is left under root is notes.txt: build is removed, root stays.
C15_ExampleScan ==
    /\ ExampleScanned =>
           SeqRange(targets) =
               {X_cache, X_pycache, X_debug}
                   \cup ({Root \o << N_pycache, N_xLOG >>} \cap DOMAIN fs0)
    /\ ExampleSwept =>
           /\ is_dir(fs, root)
           /\ ~ exists(fs, X_build)
           /\ Under(fs, root) = {X_notes}
           /\ pruned = << X_build >>

\* a finished run on the example tree with m.pyc inside __pycache__: m.pyc
\* was not selected, and went with the directory
C15_Witness ==
    /\ ExampleSwept
    /\ pc = "exited"
    /\ exists(fs0, Root \o << N_pycache, N_mpyc >>)
    /\ Root \o << N_pycache, N_mpyc >> \notin SeqRange(targets)
    /\ Under(fs, root) = {X_notes}

\* the deletion loop has ended and no directory has been swept yet
AfterDeletion == proceed /\ idx > Len(targets) /\ pruned = << >>

\* p or a directory above p, below root, is in the MatchSet
MatchedAtOrAbove(p) == \E i \in 1..Len(targets) : IsPrefix(targets[i], p)

\* C16: after the deletion loop of a run in which no removal fails for a
\* reason other than the path being gone, and before any sweep, an entry
\* that was under root at the scan exists iff neither it nor a directory
\* above it is in the MatchSet: a non-matching file with no matched
\* directory above it stays, and an entry deeper than max_depth goes when a
\* directory above it, within the bound, matched.
C16_SurvivesIffUnmatched ==
    (AfterDeletion /\ env.delfail = 0 /\ env.external = 0) =>
        \A p \in Under(fs0, root) :
            /\ exists(fs, p) <=> ~ MatchedAtOrAbove(p)
            /\ (fs0[p] = "file" /\ ~ matches(fs0, rules, p)
                  /\ \A d \in DOMAIN fs0 :
                         (IsProperPrefix(root, d) /\ IsProperPrefix(d, p))
                             => ~ matches(fs0, rules, d))
                   => exists(fs, p)
            /\ (~ InDepth(p)
                  /\ \E d \in SeqRange(targets) : IsProperPrefix(d, p))
                   => ~ exists(fs, p)

\* a deletion with --max-depth 1 that removed an entry of depth 2 with its
\* matched directory, and left a file that matches nothing
C16_Witness ==
    /\ AfterDeletion
    /\ env.delfail = 0 /\ env.external = 0
    /\ args.max_depth = << 1 >>
    /\ \E p \in Under(fs0, root) :
           /\ DepthFromRoot(p) = 2
           /\ p \notin SeqRange(targets)
           /\ ~ exists(fs, p)
    /\ \E q \in Under(fs0, root) :
           /\ fs0[q] = "file"
           /\ ~ matches(fs0, rules, q)
           /\ exists(fs, q)

\* C17: root is never in the MatchSet and no run removes it, even when
\* root's own name satisfies the rules: every path the deletion loop
\* attempts, every directory the sweep removes and every entry that is gone
\* lies strictly beneath root, and root is a directory throughout.
C17_RootKept ==
    /\ root \notin SeqRange(targets)
    /\ \A i \in 1..Len(targets) : IsProperPrefix(root, targets[i])
    /\ \A i \in 1..Len(attempts) : IsProperPrefix(root, attempts[i].path)
    /\ \A i \in 1..Len(pruned) : IsProperPrefix(root, pruned[i])
    /\ (DOMAIN fs0) \ (DOMAIN fs) \subseteq Under(fs0, root)
    /\ is_dir(fs0, root) => is_dir(fs, root)

\* a finished run on a root whose name matches the rules: targets were
\* removed, directories were swept, root is left empty and in place
C17_Witness ==
    /\ pc = "exited"
    /\ matches(fs0, rules, root)
    /\ removed > 0
    /\ pruned # << >>
    /\ is_dir(fs, root)
    /\ Under(fs, root) = {}

\* C18: the sweep does not depend on what the scan selected: when it runs
\* and no directory operation fails, every directory under root that was
\* empty before the run and is not beneath a removed target is removed,
\* whatever its depth is against max_depth and whether or not it matches a
\* rule or was emptied by this run.
C18_SweepIndependentOfScan ==
    (SweepDone /\ env.sweepfail = 0 /\ env.external = 0) =>
        \A d \in Under(fs0, root) :
            (fs0[d] = "dir" /\ Children(fs0, d) = {}
                 /\ ~ \E i \in 1..Len(targets) : IsProperPrefix(targets[i], d))
               => /\ ~ exists(fs, d)
                  /\ d \in SeqRange(targets) \/ d \in SeqRange(pruned)

\* a sweep that removed a directory deeper than max_depth that was empty
\* before the run and matches no rule
C18_Witness ==
    /\ SweepDone
    /\ pc = "exited"
    /\ args.max_depth # << >>
    /\ \E i \in 1..Len(pruned) :
           /\ DepthFromRoot(pruned[i]) > args.max_depth[1]
           /\ fs0[pruned[i]] = "dir"
           /\ Children(fs0, pruned[i]) = {}
           /\ ~ matches(fs0, rules, pruned[i])

\* the entries of the MatchSet with no directory above them in the MatchSet
TopTargets ==
    {i \in 1..Len(targets) :
        ~ \E j \in 1..Len(targets) : IsProperPrefix(targets[j], targets[i])}

\* C19: a matched directory precedes the matched entries beneath it in the
\* MatchSet.  So when no removal fails for a reason other than the path
\* being gone, `removed` is the number of matched entries with no matched
\* directory above them, and every other matched entry is attempted once
\* and fails once, its path being gone.
C19_NestedMatchesCounted ==
    /\ \A i, j \in 1..Len(targets) :
           IsProperPrefix(targets[i], targets[j]) => i < j
    /\ (DeletionDone /\ env.delfail = 0) =>
           /\ removed = Cardinality(TopTargets)
           /\ Len(attempts) = Len(targets)
           /\ \A i \in 1..Len(targets) :
                  /\ attempts[i].path = targets[i]
                  /\ attempts[i].out =
                         IF i \in TopTargets THEN "ok" ELSE "FileNotFoundError"
           /\ Cardinality(Failed) = Len(targets) - Cardinality(TopTargets)

\* a finished run with a matched directory and a matched entry beneath it:
\* fewer removed than matched
C19_Witness ==
    /\ DeletionDone
    /\ pc = "exited"
    /\ env.delfail = 0
    /\ TopTargets # 1..Len(targets)
    /\ removed < Len(targets)
    /\ removed > 1

\* the number of days of month m of year y, from the calendar's rule
DaysIn(y, m) ==
    IF m \in {4, 6, 9, 11} THEN 30
    ELSE IF m # 2 THEN 31
    ELSE IF y % 400 = 0 \/ (y % 4 = 0 /\ y % 100 # 0) THEN 29
    ELSE 28

\* months counted from year 0
MonthIndex(y, m) == 12 * y + (m - 1)

\* C20: when year and month are both given (month being a month),
\* get_target_period returns that month; otherwise, one of them or both
\* missing, it returns the calendar month before today's, December of the
\* year before for a today in January.  Always start_date is day 1 and
\* end_date the last day of the target month, and target_month is in 1..12.
C20_TargetPeriod ==
    (pc = "period_done" /\ ~ probe.result.raised) =>
        LET r     == probe.result
            today == probe.today
            given == args.year # << >> /\ args.month # << >>
        IN  /\ given => (r.target_year = args.year[1]
                           /\ r.target_month = args.month[1])
            /\ ~ given =>
                   /\ MonthIndex(r.target_year, r.target_month) =
                          MonthIndex(today.year, today.month) - 1
                   /\ today.month = 1 =>
                          (r.target_month = 12
                             /\ r.target_year = today.year - 1)
            /\ 1 <= r.target_month /\ r.target_month <= 12
            /\ r.start_date =
                   [year |-> r.target_year, month |-> r.target_month, day |-> 1]
            /\ r.end_date =
                   [year |-> r.target_year, month |-> r.target_month,
                    day |-> DaysIn(r.target_year, r.target_month)]
            /\ r.end_date.day \in 28..31

\* a call with --year but no --month on a day of January: the period is
\* December of the year before today's
C20_Witness ==
    /\ pc = "period_done"
    /\ args.year # << >> /\ args.month = << >>
    /\ probe.today.month = 1
    /\ ~ probe.result.raised
    /\ probe.result.target_month = 12
    /\ probe.result.target_year = probe.today.year - 1
    /\ probe.result.end_date.day = 31
====
